---------------------------- MODULE Spec2Model ----------------------------
(***************************************************************************)
(* LetterboxdScraper (src/letterboxd_scraper.py) as a state machine.       *)
(*                                                                         *)
(* Text is a sequence of one-character strings, so that strip, split,      *)
(* startswith, int() and str() are computed the way Python computes them.  *)
(* The character "nbsp" stands for U+00A0.  An optional value (None or x)  *)
(* is the sequence <<>> or <<x>>.                                          *)
(***************************************************************************)
EXTENDS Integers, Sequences, FiniteSets, TLC

(***************************************************************************)
(* Bounds of the model                                                     *)
(***************************************************************************)
\* largest number of film-reference components on one listing page
MaxItems == 2
\* largest max_pages / max_pages_per_section argument a caller passes
MaxCap == 2
\* longest section list a caller passes to scrape_all_sections
MaxSections == 2

(***************************************************************************)
(* Text primitives                                                         *)
(***************************************************************************)
DigitChars == <<"0", "1", "2", "3", "4", "5", "6", "7", "8", "9">>

Digits == {DigitChars[i] : i \in 1..10}

DigitValue(c) == (CHOOSE i \in 1..10 : DigitChars[i] = c) - 1

\* str.isspace() on the characters of the model's alphabet
IsSpace(c) == c \in {" ", "\n", "nbsp"}

RECURSIVE LStrip(_)
LStrip(s) == IF s # <<>> /\ IsSpace(Head(s)) THEN LStrip(Tail(s)) ELSE s

RECURSIVE RStrip(_)
RStrip(s) ==
  IF s # <<>> /\ IsSpace(s[Len(s)]) THEN RStrip(SubSeq(s, 1, Len(s) - 1)) ELSE s

\* str.strip()
Strip(s) == RStrip(LStrip(s))

RECURSIVE LStripChar(_, _)
LStripChar(s, c) == IF s # <<>> /\ Head(s) = c THEN LStripChar(Tail(s), c) ELSE s

RECURSIVE RStripChar(_, _)
RStripChar(s, c) ==
  IF s # <<>> /\ s[Len(s)] = c THEN RStripChar(SubSeq(s, 1, Len(s) - 1), c) ELSE s

\* str.strip(c) for a single character c
StripChar(s, c) == RStripChar(LStripChar(s, c), c)

\* str.startswith(p)
StartsWith(s, p) == Len(s) >= Len(p) /\ SubSeq(s, 1, Len(p)) = p

\* p in s
Contains(s, p) ==
  \E i \in 1..(Len(s) - Len(p) + 1) : SubSeq(s, i, i + Len(p) - 1) = p

\* str.split(c) for a single character c: always at least one piece
RECURSIVE Split(_, _)
Split(s, c) ==
  IF \A i \in 1..Len(s) : s[i] # c
  THEN <<s>>
  ELSE LET k == CHOOSE i \in 1..Len(s) : s[i] = c /\ \A j \in 1..(i - 1) : s[j] # c
       IN  <<SubSeq(s, 1, k - 1)>> \o Split(SubSeq(s, k + 1, Len(s)), c)

\* str.replace(a, b) for single characters
Replace(s, a, b) == [i \in 1..Len(s) |-> IF s[i] = a THEN b ELSE s[i]]

\* str.replace(a, '') for a single character a
RECURSIVE Remove(_, _)
Remove(s, a) ==
  IF s = <<>> THEN <<>>
  ELSE (IF Head(s) = a THEN <<>> ELSE <<Head(s)>>) \o Remove(Tail(s), a)

\* sep.join(parts)
RECURSIVE Join(_, _)
Join(parts, sep) ==
  IF parts = <<>> THEN <<>>
  ELSE IF Len(parts) = 1 THEN parts[1]
  ELSE parts[1] \o sep \o Join(Tail(parts), sep)

\* the body of an int() literal after strip and sign: digits, single
\* underscores only between digits
IntBodyOk(b) ==
  /\ b # <<>>
  /\ \A i \in 1..Len(b) : b[i] \in Digits \cup {"_"}
  /\ b[1] \in Digits /\ b[Len(b)] \in Digits
  /\ \A i \in 1..(Len(b) - 1) : ~(b[i] = "_" /\ b[i + 1] = "_")

IntBody(s) ==
  LET t == Strip(s)
  IN  IF t # <<>> /\ Head(t) \in {"+", "-"} THEN Tail(t) ELSE t

\* int(s) does not raise ValueError
IntParses(s) == IntBodyOk(IntBody(s))

RECURSIVE DigitsValue(_)
DigitsValue(d) ==
  IF d = <<>> THEN 0 ELSE 10 * DigitsValue(SubSeq(d, 1, Len(d) - 1)) + DigitValue(d[Len(d)])

\* int(s), where IntParses(s)
IntOf(s) ==
  LET t == Strip(s)
      v == DigitsValue(Remove(IntBody(s), "_"))
  IN  IF t # <<>> /\ Head(t) = "-" THEN 0 - v ELSE v

\* str(n) for an integer n >= 0
RECURSIVE NatStr(_)
NatStr(n) ==
  IF n < 10 THEN <<DigitChars[n + 1]>> ELSE NatStr(n \div 10) \o <<DigitChars[(n % 10) + 1]>>

\* str(v / 2.0) for an integer v >= 0
HalfStr(v) == NatStr(v \div 2) \o <<".">> \o (IF v % 2 = 1 THEN <<"5">> ELSE <<"0">>)


(***************************************************************************)
(* Sentinels and literals of the source                                    *)
(***************************************************************************)
NA == <<"N", "/", "A">>

Zero == <<"0">>

NotRated == <<"N", "o", "t", " ", "R", "a", "t", "e", "d">>

RatedPrefix == <<"r", "a", "t", "e", "d", "-">>

FilmMarker == <<"/", "f", "i", "l", "m", "/">>

OutOf == <<"o", "u", "t", " ", "o", "f">>

fieldnames ==
  <<"movie_id", "username", "movie_name", "year", "genres", "rating",
    "popularity", "vote_average", "vote_count">>

\* line 238
DefaultSections == <<"films", "reviews", "diary", "watchlist", "likes/films">>

(***************************************************************************)
(* Optional values and Python truthiness                                   *)
(***************************************************************************)
None == <<>>

Some(x) == <<x>>

\* bool(n) for n an optional integer: None and 0 are falsy
Truthy(opt) == opt # None /\ opt[1] # 0

Min(a, b) == IF a <= b THEN a ELSE b

(***************************************************************************)
(* get_page: one HTTP GET.  A response is [status, doc]:                   *)
(*   "ok"             the document parsed from the body                    *)
(*   "request_error"  a requests.exceptions.RequestException               *)
(*   "other_error"    any other Exception (the parser rejecting the body)  *)
(*   "interrupt"      KeyboardInterrupt delivered during the blocking call *)
(* The result is [kind |-> "soup", doc], [kind |-> "none"] or a raise.     *)
(***************************************************************************)
get_page(resp) ==
  CASE resp.status = "ok"            -> [kind |-> "soup", doc |-> resp.doc]
    [] resp.status = "request_error" -> [kind |-> "none"]
    [] resp.status = "other_error"   -> [kind |-> "raise", exc |-> "Exception"]
    [] resp.status = "interrupt"     -> [kind |-> "raise", exc |-> "KeyboardInterrupt"]

(***************************************************************************)
(* get_num_pages.  doc = [pagination, page_links]; intr says that a        *)
(* KeyboardInterrupt is delivered inside the try body of line 45.          *)
(***************************************************************************)
get_num_pages(resp, intr) ==
  LET soup == get_page(resp)
  IN  CASE soup.kind = "raise" -> soup
        [] soup.kind = "none"  -> [kind |-> "return", value |-> 1, swallowed |-> FALSE]
        [] soup.kind = "soup"  ->
             IF soup.doc.pagination /\ soup.doc.page_links # <<>>
             THEN LET text == soup.doc.page_links[Len(soup.doc.page_links)]
                  IN  IF intr
                      THEN [kind |-> "return", value |-> 1, swallowed |-> TRUE]
                      ELSE IF IntParses(Strip(text))
                      THEN [kind |-> "return", value |-> IntOf(Strip(text)), swallowed |-> FALSE]
                      ELSE [kind |-> "return", value |-> 1, swallowed |-> FALSE]
             ELSE [kind |-> "return", value |-> 1, swallowed |-> FALSE]

\* the try body of line 45 is entered
NumPagesTryEntered(resp) ==
  resp.status = "ok" /\ resp.doc.pagination /\ resp.doc.page_links # <<>>

(***************************************************************************)
(* extract_user_rating.  item = [target_link, has_li, spans]; spans are    *)
(* the class lists of the span elements under the enclosing li.  intr is   *)
(* the position, in the rating span's class list, of the class in whose    *)
(* try body a KeyboardInterrupt is delivered (0: none).                    *)
(***************************************************************************)
\* soup.find('span', class_=re.compile(r'rated-')): the first span one of
\* whose classes contains 'rated-'
RatingSpan(spans) ==
  LET hits == {i \in 1..Len(spans) :
                 \E k \in 1..Len(spans[i]) : Contains(spans[i][k], RatedPrefix)}
  IN  IF hits = {} THEN None
      ELSE Some(spans[CHOOSE i \in hits : \A j \in hits : i <= j])

RECURSIVE RatingFromClasses(_, _, _)
RatingFromClasses(classes, k, intr) ==
  IF k > Len(classes)
  THEN [rating |-> NotRated, swallowed |-> FALSE]
  ELSE IF StartsWith(classes[k], RatedPrefix)
  THEN IF intr = k
       THEN LET rest == RatingFromClasses(classes, k + 1, intr)
            IN  [rating |-> rest.rating, swallowed |-> TRUE]
       ELSE IF IntParses(Split(classes[k], "-")[2])
       THEN [rating |-> HalfStr(IntOf(Split(classes[k], "-")[2])), swallowed |-> FALSE]
       ELSE RatingFromClasses(classes, k + 1, intr)
  ELSE RatingFromClasses(classes, k + 1, intr)

extract_user_rating(item, intr) ==
  IF item.has_li /\ RatingSpan(item.spans) # None
  THEN RatingFromClasses(RatingSpan(item.spans)[1], 1, intr)
  ELSE [rating |-> NotRated, swallowed |-> FALSE]

\* the positions at which the try body of lines 125-127 is entered
RatingTryPositions(item) ==
  IF item.has_li /\ RatingSpan(item.spans) # None
  THEN LET classes == RatingSpan(item.spans)[1]
       IN  {k \in 1..Len(classes) :
              /\ StartsWith(classes[k], RatedPrefix)
              /\ \A j \in 1..(k - 1) :
                   ~(StartsWith(classes[j], RatedPrefix)
                     /\ IntParses(Split(classes[j], "-")[2]))}
  ELSE {}

(***************************************************************************)
(* get_movie_details.  doc = [title, year, genres, rating_meta, histogram, *)
(* fans]: each an optional text (the element's text, for rating_meta its   *)
(* content attribute), genres the texts of the genre links.                *)
(***************************************************************************)
IsNumChar(c, extra) == c \in Digits \cup {extra}

\* end of the maximal run of digits/extra that starts at i
RECURSIVE RunEnd(_, _, _)
RunEnd(s, i, extra) ==
  IF i < Len(s) /\ IsNumChar(s[i + 1], extra) THEN RunEnd(s, i + 1, extra) ELSE i

\* re.search(r'([\d,]+)', s): group 1, or None
FirstRun(s, extra) ==
  LET starts == {i \in 1..Len(s) : IsNumChar(s[i], extra)}
  IN  IF starts = {} THEN None
      ELSE LET i == CHOOSE a \in starts : \A b \in starts : a <= b
           IN  Some(SubSeq(s, i, RunEnd(s, i, extra)))

\* re.search(r'([\d.]+)\s+out of', s): group 1, or None
OutOfMatch(s) ==
  LET ok(i) == /\ IsNumChar(s[i], ".")
               /\ LET j == RunEnd(s, i, ".")
                      t == SubSeq(s, j + 1, Len(s))
                  IN  /\ t # <<>> /\ IsSpace(Head(t))
                      /\ StartsWith(LStrip(t), OutOf)
      starts == {i \in 1..Len(s) : ok(i)}
  IN  IF starts = {} THEN None
      ELSE LET i == CHOOSE a \in starts : \A b \in starts : a <= b
           IN  Some(SubSeq(s, i, RunEnd(s, i, ".")))

StripAll(texts) == [i \in 1..Len(texts) |-> Strip(texts[i])]

\* mutant: a missing fan count is 'N/A', as the other columns
ExtractDetails_PopularityNA(doc) ==
  [movie_name   |-> IF doc.title # None
                    THEN Replace(Strip(doc.title[1]), "nbsp", " ") ELSE NA,
   year         |-> IF doc.year # None THEN Strip(doc.year[1]) ELSE NA,
   genres       |-> IF doc.genres # <<>>
                    THEN Join(StripAll(doc.genres), <<",", " ">>) ELSE NA,
   vote_average |-> IF doc.rating_meta # None /\ OutOfMatch(doc.rating_meta[1]) # None
                    THEN OutOfMatch(doc.rating_meta[1])[1] ELSE NA,
   vote_count   |-> IF doc.histogram # None /\ FirstRun(Strip(doc.histogram[1]), ",") # None
                    THEN Remove(FirstRun(Strip(doc.histogram[1]), ",")[1], ",") ELSE NA,
   popularity   |-> IF doc.fans # None /\ FirstRun(Strip(doc.fans[1]), ",") # None
                    THEN Remove(FirstRun(Strip(doc.fans[1]), ",")[1], ",") ELSE NA]

\* lines 57-109: the six fields, each with its default
ExtractDetails(doc) ==
  [movie_name   |-> IF doc.title # None
                    THEN Replace(Strip(doc.title[1]), "nbsp", " ") ELSE NA,
   year         |-> IF doc.year # None THEN Strip(doc.year[1]) ELSE NA,
   genres       |-> IF doc.genres # <<>>
                    THEN Join(StripAll(doc.genres), <<",", " ">>) ELSE NA,
   vote_average |-> IF doc.rating_meta # None /\ OutOfMatch(doc.rating_meta[1]) # None
                    THEN OutOfMatch(doc.rating_meta[1])[1] ELSE NA,
   vote_count   |-> IF doc.histogram # None /\ FirstRun(Strip(doc.histogram[1]), ",") # None
                    THEN Remove(FirstRun(Strip(doc.histogram[1]), ",")[1], ",") ELSE NA,
   popularity   |-> IF doc.fans # None /\ FirstRun(Strip(doc.fans[1]), ",") # None
                    THEN Remove(FirstRun(Strip(doc.fans[1]), ",")[1], ",") ELSE Zero]

\* the result is Some(details) or None
get_movie_details(resp) ==
  LET soup == get_page(resp)
  IN  CASE soup.kind = "raise" /\ soup.exc = "KeyboardInterrupt" -> soup
        [] soup.kind = "raise" /\ soup.exc = "Exception" ->
             [kind |-> "return", value |-> None]
        [] soup.kind = "none" -> [kind |-> "return", value |-> None]
        [] soup.kind = "soup" ->
             [kind |-> "return", value |-> Some(ExtractDetails(soup.doc))]

(***************************************************************************)
(* The listing item's slug, and the record scrape_section builds           *)
(***************************************************************************)
\* not ('not target_link or "/film/" not in target_link')
ReferencesFilm(target_link) == target_link # <<>> /\ Contains(target_link, FilmMarker)

\* target_link.strip('/').split('/')[-1]
SlugOf(target_link) ==
  LET parts == Split(StripChar(target_link, "/"), "/") IN parts[Len(parts)]

\* mutant: only the record appended last is compared
AlreadyScraped_LastOnly(data, movie_slug) ==
  data # <<>> /\ data[Len(data)].movie_id = movie_slug

\* mutant: only the record appended first is compared
AlreadyScraped_FirstOnly(data, movie_slug) ==
  data # <<>> /\ data[1].movie_id = movie_slug

\* any(m['movie_id'] == movie_slug for m in self.movies_data)
AlreadyScraped(data, movie_slug) ==
  \E i \in 1..Len(data) : data[i].movie_id = movie_slug

MovieData(movie_slug, user, details, user_rating) ==
  [movie_id     |-> movie_slug,
   username     |-> user,
   movie_name   |-> details.movie_name,
   year         |-> details.year,
   genres       |-> details.genres,
   rating       |-> user_rating,
   popularity   |-> details.popularity,
   vote_average |-> details.vote_average,
   vote_count   |-> details.vote_count]

\* if movie_details: a dict with six keys is truthy, None is not
StoreRecord(data, movie_slug, user, movie_details, user_rating) ==
  IF movie_details # None
  THEN Append(data, MovieData(movie_slug, user, movie_details[1], user_rating))
  ELSE data

(***************************************************************************)
(* What the site may answer and what the caller may pass: the inputs.      *)
(***************************************************************************)
\* largest page number a pagination link shows
MaxPageNo == 2

Usernames == {"marwanmovies"}

Sections == {"films", "likes/films"}

SectionLists == UNION {[1..n -> Sections] : n \in 0..MaxSections}

\* max_pages: None, or a number of pages
Caps == {None} \cup {Some(m) : m \in 0..MaxCap}

Failed(status) == [status |-> status]

Ok(doc) == [status |-> "ok", doc |-> doc]

\* texts of the last li.paginate-page: numbers, a padded number, a negative
\* number, an ellipsis, nothing
LinkTexts ==
  {NatStr(n) : n \in 0..MaxPageNo}
    \cup {<<" ">> \o NatStr(MaxPageNo) \o <<"\n">>, <<"-", "1">>, <<".", ".", ".">>, <<>>}

PaginationTo(t) == [pagination |-> TRUE, page_links |-> <<NatStr(1), t>>]

FirstPages ==
  {[pagination |-> FALSE, page_links |-> <<>>], [pagination |-> TRUE, page_links |-> <<>>]}
    \cup {PaginationTo(t) : t \in LinkTexts}

SlugA == <<"a">>

SlugB == <<"b">>

FilmLink(slug) == FilmMarker \o slug \o <<"/">>

ListLink == <<"/", "l", "i", "s", "t", "/">> \o SlugA \o <<"/">>

TargetLinks == {FilmLink(SlugA), FilmLink(SlugB), ListLink, <<>>}

Rated(v) == RatedPrefix \o v

\* an li ancestor and one span of class "rating rated-7"
Rated7 == <<TRUE, <<<<<<"r", "a", "t", "i", "n", "g">>, Rated(<<"7">>)>>>>>>

\* an li ancestor and no span
Unrated == <<TRUE, <<>>>>

\* (an li ancestor exists, the class lists of the spans under it)
RatingMarkups ==
  {Rated7,
   Unrated,
   <<FALSE, <<<<Rated(<<"7">>)>>>>>>,
   <<TRUE, <<<<Rated(<<"0">>)>>>>>>,
   <<TRUE, <<<<Rated(<<"1">>)>>>>>>,
   <<TRUE, <<<<Rated(<<"1", "0">>)>>>>>>,
   <<TRUE, <<<<Rated(<<"1", "1">>)>>>>>>,
   <<TRUE, <<<<Rated(<<"x">>)>>>>>>,
   <<TRUE, <<<<Rated(<<"x">>), Rated(<<"4">>)>>>>>>,
   <<TRUE, <<<<<<"u", "n">> \o Rated(<<"3">>)>>>>>>}

FullPage ==
  [title       |-> Some(<<"nbsp", "A", "nbsp", "B", " ">>),
   year        |-> Some(<<"1", "9", "9", "9", " ">>),
   genres      |-> <<<<"D", "r", "a", "m", "a">>, <<"W", "a", "r", " ">>>>,
   rating_meta |-> Some(<<"3", ".", "5", " ", "o", "u", "t", " ", "o", "f", " ", "5">>),
   histogram   |-> Some(<<"1", ",", "2", "3", "4", "nbsp", "r", "a", "t", "i", "n", "g", "s">>),
   fans        |-> Some(<<"1", "2", " ", "f", "a", "n", "s">>)]

Features == DOMAIN FullPage

\* the page with the elements of `absent` taken out
Without(doc, absent) == [f \in DOMAIN doc |-> IF f \in absent THEN <<>> ELSE doc[f]]

\* every element is there and none of the patterns matches
NoMatchPage ==
  [FullPage EXCEPT !.rating_meta = Some(<<>>),
                   !.histogram = Some(<<"r", "a", "t", "i", "n", "g", "s">>),
                   !.fans = Some(<<"f", "a", "n", "s">>)]

DetailPages == {Without(FullPage, absent) : absent \in SUBSET Features} \cup {NoMatchPage}

(***************************************************************************)
(* One run draws its inputs from one family (`world`): each family is wide *)
(* in the inputs it is about and narrow in the others.                     *)
(*   "pagination"  every first page and every cap                          *)
(*   "ratings"     every rating markup, both films, one or two sections    *)
(*   "details"     every detail page, one film                             *)
(*   "faults"      every section list, exceptions and interrupts           *)
(***************************************************************************)
Worlds == {"pagination", "ratings", "details", "faults"}

FirstPagesIn(w) ==
  IF w = "pagination" THEN FirstPages
  ELSE {[pagination |-> FALSE, page_links |-> <<>>], PaginationTo(NatStr(MaxPageNo))}

CapsIn(w) == IF w = "pagination" THEN Caps ELSE {None}

SectionListsIn(w) ==
  CASE w = "faults"  -> SectionLists
    [] w = "ratings" -> {ss \in SectionLists : Len(ss) >= 1 /\ ss[1] = "films"}
    [] OTHER         -> {<<"films">>}

\* the sections argument of scrape_all_sections: a list, or None (left out)
SectionArgsIn(w) ==
  {Some(ss) : ss \in SectionListsIn(w)} \cup (IF w = "details" THEN {None} ELSE {})

SectionsIn(w) == IF w = "faults" THEN Sections ELSE {"films"}

TargetLinksIn(w) ==
  CASE w = "pagination" -> {FilmLink(SlugA), <<>>}
    [] w = "details"    -> {FilmLink(SlugA)}
    [] OTHER            -> TargetLinks

RatingMarkupsIn(w) ==
  CASE w = "ratings" -> RatingMarkups
    [] w = "faults"  -> {Rated7, Unrated}
    [] OTHER         -> {Rated7}

DetailPagesIn(w) == IF w = "details" THEN DetailPages ELSE {FullPage}

\* how a request may fail
FaultsIn(w) ==
  IF w = "faults" THEN {"request_error", "other_error", "interrupt"} ELSE {"request_error"}

\* a KeyboardInterrupt may be delivered between requests
InterruptsIn(w) == w = "faults"

FirstPageResponses(w) ==
  {Ok(d) : d \in FirstPagesIn(w)} \cup {Failed(f) : f \in FaultsIn(w)}

\* a listing page is the number of div.react-component[data-target-link] it
\* holds; each component is drawn when the loop of line 172 reaches it
ListingResponses(w) ==
  {Ok([movie_items |-> n]) : n \in 0..MaxItems} \cup {Failed(f) : f \in FaultsIn(w)}

Items(w) ==
  {[target_link |-> l, has_li |-> m[1], spans |-> m[2]] :
     l \in TargetLinksIn(w), m \in RatingMarkupsIn(w)}

DetailResponses(w) ==
  {Ok(d) : d \in DetailPagesIn(w)} \cup {Failed(f) : f \in FaultsIn(w)}

(***************************************************************************)
(* State                                                                   *)
(***************************************************************************)
VARIABLES
  world,                  \* the family of inputs of this run
  username,               \* self.username
  movies_data,            \* self.movies_data, the result set
  pc,                     \* where the running operation stands ("idle": none runs)
  call,                   \* the public operation called last
  exc,                    \* the exception on its way out of scrape_section
  sections,               \* scrape_all_sections: the section list
  secIdx,                 \* scrape_all_sections: sections iterated so far
  max_pages_per_section,  \* scrape_all_sections: its page cap
  section,                \* scrape_section: its section
  max_pages,              \* scrape_section: its page cap
  total_pages,            \* scrape_section: total_pages (lines 142, 146)
  page,                   \* scrape_section: the loop variable of line 150
  itemsLeft,              \* components of movie_items not yet iterated
  movie_slug,             \* scrape_section: movie_slug of the item at hand
  user_rating,            \* scrape_section: user_rating of the item at hand
  movie_details,          \* scrape_section: what get_movie_details returned
  ret,                    \* what the last public operation returned or raised
  csvfile,                \* what the last save_to_csv wrote
  saveIo,                 \* what the file system did to the last save_to_csv
  \* history: what happened, for stating the properties
  numPages,               \* what get_num_pages returned in this scrape_section
  firstResp,              \* the response get_num_pages has just got
  requested,              \* listing pages requested in this scrape_section
  pageSlept,              \* time.sleep(2) ran since the last listing request
  filmSleepDue,           \* a detail page was requested and time.sleep(1.5) has not run since
  skipped,                \* what became of the listing item at hand
  detailResp,             \* the response to the last detail request
  interruptSeen,          \* a KeyboardInterrupt was delivered during this call
  atInterrupt,            \* movies_data when it was first delivered
  started,                \* scrape_all_sections: sections whose scrape began
  broke,                  \* scrape_all_sections: the loop ran the break of line 251
  raisedLen,              \* scrape_all_sections: Len(movies_data) when line 252 first caught
  appended                \* every record appended so far, in order

objv == <<username, movies_data>>

allv == <<sections, secIdx, max_pages_per_section>>

secv == <<section, max_pages, total_pages, page>>

itemv == <<itemsLeft, movie_slug, user_rating, movie_details>>

outv == <<ret, csvfile, saveIo>>

sechist == <<numPages, firstResp, requested, pageSlept, filmSleepDue>>

itemhist == <<skipped, detailResp>>

intrhist == <<interruptSeen, atInterrupt>>

allhist == <<started, broke, raisedLen>>

vars ==
  <<world, objv, pc, call, exc, allv, secv, itemv, outv, sechist, itemhist, intrhist,
    allhist, appended>>

NoResp == Failed("none")

NoRet == [kind |-> "none"]

NoFile == [exists |-> FALSE, header |-> <<>>, rows |-> <<>>]

NoIo == [kind |-> "none", lines |-> 0]

\* LetterboxdScraper(username)
Init ==
  /\ world \in Worlds
  /\ username \in Usernames
  /\ movies_data = <<>>
  /\ pc = "idle"
  /\ call = "none"
  /\ exc = "none"
  /\ sections = <<>>
  /\ secIdx = 0
  /\ max_pages_per_section = None
  /\ section = "films"
  /\ max_pages = None
  /\ total_pages = 0
  /\ page = 0
  /\ itemsLeft = 0
  /\ movie_slug = None
  /\ user_rating = None
  /\ movie_details = None
  /\ ret = NoRet
  /\ csvfile = NoFile
  /\ saveIo = NoIo
  /\ numPages = None
  /\ firstResp = NoResp
  /\ requested = <<>>
  /\ pageSlept = FALSE
  /\ filmSleepDue = FALSE
  /\ skipped = "none"
  /\ detailResp = NoResp
  /\ interruptSeen = FALSE
  /\ atInterrupt = <<>>
  /\ started = <<>>
  /\ broke = FALSE
  /\ raisedLen = None
  /\ appended = <<>>

(***************************************************************************)
(* Control flow shared by the actions                                      *)
(***************************************************************************)
\* e is raised and nothing inside scrape_section catches it
Raise(e) ==
  /\ pc' = "raise"
  /\ exc' = e

Interrupted ==
  /\ interruptSeen' = TRUE
  /\ atInterrupt' = IF interruptSeen THEN atInterrupt ELSE movies_data

NoteInterrupt(e) ==
  IF e = "KeyboardInterrupt" THEN Interrupted ELSE UNCHANGED intrhist

\* the locals of the item loop hold nothing the program reads again
ClearItem ==
  /\ movie_slug' = None
  /\ user_rating' = None
  /\ movie_details' = None
  /\ skipped' = "none"
  /\ detailResp' = NoResp

\* no scrape_section is running: its locals and its history are gone
NoSection ==
  /\ section' = "films"
  /\ max_pages' = None
  /\ total_pages' = 0
  /\ page' = 0
  /\ itemsLeft' = 0
  /\ ClearItem
  /\ numPages' = None
  /\ firstResp' = NoResp
  /\ requested' = <<>>
  /\ pageSlept' = FALSE
  /\ filmSleepDue' = FALSE

\* no scrape_all_sections is running
NoAll ==
  /\ sections' = <<>>
  /\ secIdx' = 0
  /\ max_pages_per_section' = None
  /\ started' = <<>>
  /\ broke' = FALSE
  /\ raisedLen' = None

NoInterrupt ==
  /\ interruptSeen' = FALSE
  /\ atInterrupt' = <<>>

\* the first statement of scrape_section
EnterSection(s, m) ==
  /\ section' = s
  /\ max_pages' = m
  /\ total_pages' = 0
  /\ page' = 0
  /\ itemsLeft' = 0
  /\ ClearItem
  /\ numPages' = None
  /\ firstResp' = NoResp
  /\ requested' = <<>>
  /\ pageSlept' = FALSE
  /\ filmSleepDue' = FALSE
  /\ pc' = "get_num_pages"

\* lines 145-146
CapPages(n, m) == IF Truthy(m) THEN Min(n, m[1]) ELSE n

\* the for loop of line 150 takes its next value, or ends
LoopPage(p, total) ==
  IF p < total
  THEN /\ page' = p + 1
       /\ pc' = "get_page"
  ELSE /\ page' = p
       /\ pc' = "section_return"

(***************************************************************************)
(* scrape_section(section, max_pages), called by the user                  *)
(***************************************************************************)
CallScrapeSection ==
  \E s \in SectionsIn(world), m \in CapsIn(world) :
    /\ pc = "idle"
    /\ call' = "scrape_section"
    /\ EnterSection(s, m)
    /\ ret' = NoRet
    /\ csvfile' = NoFile
    /\ saveIo' = NoIo
    /\ UNCHANGED <<world, objv, exc, allv, intrhist, allhist, appended>>

\* lines 141-150: get_num_pages, the cap, the first turn of the loop
GetNumPages ==
  /\ pc = "get_num_pages"
  /\ \E resp \in FirstPageResponses(world), intr \in BOOLEAN :
       /\ intr => InterruptsIn(world) /\ NumPagesTryEntered(resp)
       /\ LET r == get_num_pages(resp, intr)
          IN  IF r.kind = "raise"
              THEN /\ Raise(r.exc)
                   /\ NoteInterrupt(r.exc)
                   /\ UNCHANGED <<total_pages, page, numPages, firstResp>>
              ELSE /\ numPages' = Some(r.value)
                   /\ firstResp' = resp
                   /\ total_pages' = CapPages(r.value, max_pages)
                   /\ LoopPage(0, CapPages(r.value, max_pages))
                   /\ IF r.swallowed THEN Interrupted ELSE UNCHANGED intrhist
                   /\ UNCHANGED exc
  /\ UNCHANGED <<world, objv, call, allv, section, max_pages, itemv, outv, requested,
                 pageSlept, filmSleepDue, itemhist, allhist, appended>>

\* lines 151-170: one listing page is requested
FetchListing ==
  /\ pc = "get_page"
  /\ requested' = Append(requested, page)
  /\ pageSlept' = FALSE
  /\ firstResp' = NoResp
  /\ \E resp \in ListingResponses(world) :
       LET soup == get_page(resp)
       IN  CASE soup.kind = "raise" ->
                  /\ Raise(soup.exc)
                  /\ NoteInterrupt(soup.exc)
                  /\ UNCHANGED <<page, itemsLeft>>
             [] soup.kind = "none" ->
                  /\ LoopPage(page, total_pages)
                  /\ UNCHANGED <<itemsLeft, exc, intrhist>>
             [] soup.kind = "soup" /\ soup.doc.movie_items = 0 ->
                  /\ LoopPage(page, total_pages)
                  /\ UNCHANGED <<itemsLeft, exc, intrhist>>
             [] soup.kind = "soup" /\ soup.doc.movie_items > 0 ->
                  /\ itemsLeft' = soup.doc.movie_items
                  /\ pc' = "items"
                  /\ UNCHANGED <<page, exc, intrhist>>
  /\ UNCHANGED <<world, objv, call, allv, section, max_pages, total_pages, movie_slug,
                 user_rating, movie_details, outv, numPages, filmSleepDue, itemhist,
                 allhist, appended>>

\* lines 172-195: the next component of the page, up to its rating
NextItem ==
  /\ pc = "items"
  /\ \/ /\ itemsLeft = 0
        /\ pc' = "page_end"
        /\ ClearItem
        /\ UNCHANGED <<itemsLeft, exc, intrhist>>
     \/ /\ itemsLeft > 0
        /\ itemsLeft' = itemsLeft - 1
        /\ movie_details' = None
        /\ detailResp' = NoResp
        /\ \E item \in Items(world) :
             IF ~ReferencesFilm(item.target_link)
             THEN /\ skipped' = "not_film"
                  /\ pc' = "items"
                  /\ movie_slug' = None
                  /\ user_rating' = None
                  /\ UNCHANGED <<exc, intrhist>>
             ELSE IF AlreadyScraped(movies_data, SlugOf(item.target_link))
             THEN /\ skipped' = "duplicate"
                  /\ movie_slug' = Some(SlugOf(item.target_link))
                  /\ user_rating' = None
                  /\ pc' = "items"
                  /\ UNCHANGED <<exc, intrhist>>
             ELSE \E intr \in {0} \cup (IF InterruptsIn(world)
                                          THEN RatingTryPositions(item) ELSE {}) :
                    LET r == extract_user_rating(item, intr)
                    IN  /\ skipped' = "no"
                        /\ movie_slug' = Some(SlugOf(item.target_link))
                        /\ user_rating' = Some(r.rating)
                        /\ pc' = "get_movie_details"
                        /\ IF r.swallowed THEN Interrupted ELSE UNCHANGED intrhist
                        /\ UNCHANGED exc
     \/ /\ itemsLeft > 0
        /\ InterruptsIn(world)
        /\ Raise("KeyboardInterrupt")
        /\ Interrupted
        /\ UNCHANGED <<itemv, itemhist>>
  /\ UNCHANGED <<world, objv, call, allv, secv, outv, sechist, allhist, appended>>

\* lines 197-217: the detail page is requested and the record stored
FetchDetail ==
  /\ pc = "get_movie_details"
  /\ \E resp \in DetailResponses(world) :
       LET r == get_movie_details(resp)
       IN  /\ detailResp' = resp
           /\ filmSleepDue' = TRUE
           /\ IF r.kind = "raise"
              THEN /\ Raise(r.exc)
                   /\ NoteInterrupt(r.exc)
                   /\ UNCHANGED <<movies_data, movie_details, appended>>
              ELSE /\ movie_details' = r.value
                   /\ movies_data' =
                        StoreRecord(movies_data, movie_slug[1], username, r.value, user_rating[1])
                   /\ appended' =
                        IF r.value # None
                        THEN Append(appended,
                                    MovieData(movie_slug[1], username, r.value[1], user_rating[1]))
                        ELSE appended
                   /\ pc' = "film_sleep"
                   /\ UNCHANGED <<exc, intrhist>>
  /\ UNCHANGED <<world, username, call, allv, secv, itemsLeft, movie_slug, user_rating, outv,
                 numPages, firstResp, requested, pageSlept, skipped, allhist>>

\* line 220: time.sleep(1.5)
FilmSleep ==
  /\ pc = "film_sleep"
  /\ \/ /\ pc' = "items"
        /\ filmSleepDue' = FALSE
        /\ UNCHANGED <<exc, intrhist>>
     \/ /\ InterruptsIn(world)
        /\ Raise("KeyboardInterrupt")
        /\ Interrupted
        /\ UNCHANGED filmSleepDue
  /\ UNCHANGED <<world, objv, call, allv, secv, itemv, outv, numPages, firstResp, requested,
                 pageSlept, itemhist, allhist, appended>>

\* lines 222-225 and the next turn of the loop of line 150
PageEnd ==
  /\ pc = "page_end"
  /\ \/ /\ page < total_pages
        /\ pageSlept' = TRUE
        /\ LoopPage(page, total_pages)
        /\ UNCHANGED <<exc, intrhist>>
     \/ /\ page < total_pages
        /\ InterruptsIn(world)
        /\ Raise("KeyboardInterrupt")
        /\ Interrupted
        /\ UNCHANGED <<page, pageSlept>>
     \/ /\ ~(page < total_pages)
        /\ LoopPage(page, total_pages)
        /\ UNCHANGED <<pageSlept, exc, intrhist>>
  /\ UNCHANGED <<world, objv, call, allv, section, max_pages, total_pages, itemv, outv,
                 numPages, firstResp, requested, filmSleepDue, itemhist, allhist, appended>>

\* line 230: return self.movies_data, to the user or to line 248
SectionReturn ==
  /\ pc = "section_return"
  /\ NoSection
  /\ IF call = "scrape_section"
     THEN /\ pc' = "idle"
          /\ ret' = [kind |-> "list", value |-> movies_data]
          /\ NoInterrupt
     ELSE /\ pc' = "for_section"
          /\ UNCHANGED <<ret, intrhist>>
  /\ UNCHANGED <<world, objv, call, exc, allv, csvfile, saveIo, allhist, appended>>

\* the exception leaves scrape_section called by the user
Propagate ==
  /\ pc = "raise"
  /\ call = "scrape_section"
  /\ pc' = "idle"
  /\ ret' = [kind |-> "raised", exc |-> exc]
  /\ exc' = "none"
  /\ NoSection
  /\ NoInterrupt
  /\ UNCHANGED <<world, objv, call, allv, csvfile, saveIo, allhist, appended>>

(***************************************************************************)
(* scrape_all_sections(sections, max_pages_per_section)                    *)
(***************************************************************************)
\* lines 237-238: if sections is None
SectionsOrDefault(arg) == IF arg = None THEN DefaultSections ELSE arg[1]

CallScrapeAll ==
  \E arg \in SectionArgsIn(world), m \in CapsIn(world) :
    /\ pc = "idle"
    /\ call' = "scrape_all_sections"
    /\ sections' = SectionsOrDefault(arg)
    /\ max_pages_per_section' = m
    /\ secIdx' = 0
    /\ ret' = NoRet
    /\ csvfile' = NoFile
    /\ saveIo' = NoIo
    /\ pc' = "for_section"
    /\ UNCHANGED <<world, objv, exc, secv, itemv, sechist, itemhist, intrhist, allhist, appended>>

\* line 246: the loop takes the next section, lines 247-248, or ends
ForSection ==
  /\ pc = "for_section"
  /\ IF secIdx < Len(sections)
     THEN /\ secIdx' = secIdx + 1
          /\ EnterSection(sections[secIdx + 1], max_pages_per_section)
          /\ started' = Append(started, sections[secIdx + 1])
     ELSE /\ pc' = "all_return"
          /\ UNCHANGED <<secIdx, started, secv, itemv, sechist, itemhist>>
  /\ UNCHANGED <<world, objv, call, exc, sections, max_pages_per_section, outv, intrhist,
                 broke, raisedLen, appended>>

\* mutant: every except clause ends the loop
HandlerPc_BreakOnError(e) == "all_return"

\* what the except clauses of lines 249-256 do with e
HandlerPc(e) == IF e = "KeyboardInterrupt" THEN "all_return" ELSE "for_section"

\* lines 249-256: the exception reaches the try of scrape_all_sections
ExceptHandler ==
  /\ pc = "raise"
  /\ call = "scrape_all_sections"
  /\ pc' = HandlerPc(exc)
  /\ broke' = (broke \/ exc = "KeyboardInterrupt")
  /\ raisedLen' = IF exc = "Exception" /\ raisedLen = None
                  THEN Some(Len(movies_data)) ELSE raisedLen
  /\ exc' = "none"
  /\ NoSection
  /\ UNCHANGED <<world, objv, call, allv, outv, intrhist, started, appended>>

\* lines 258-263: return self.movies_data
AllReturn ==
  /\ pc = "all_return"
  /\ pc' = "idle"
  /\ ret' = [kind |-> "list", value |-> movies_data]
  /\ NoAll
  /\ NoInterrupt
  /\ UNCHANGED <<world, objv, call, exc, secv, itemv, csvfile, saveIo, sechist, itemhist,
                 appended>>

(***************************************************************************)
(* save_to_csv(filename)                                                   *)
(***************************************************************************)
Filenames == {None, Some(<<"test_output.csv">>)}

\* lines 271-273
FilenameOf(filename, user) ==
  IF filename = None THEN <<user, "_letterboxd_", "%Y%m%d_%H%M%S", ".csv">> ELSE filename[1]

\* csv.DictWriter(fieldnames).writerow(m): the values in the order of fieldnames
Row(m) == [i \in 1..Len(fieldnames) |-> m[fieldnames[i]]]

Rows(data) == [i \in 1..Len(data) |-> Row(data[i])]

\* what the file system does: nothing wrong, open raises, or a write raises
\* after `lines` lines went out; it is not asked when there is nothing to save
IoOutcomes(data) ==
  IF data = <<>> THEN {NoIo}
  ELSE {[kind |-> "ok", lines |-> 0], [kind |-> "open_error", lines |-> 0]}
         \cup {[kind |-> "write_error", lines |-> n] : n \in 0..Len(data)}

\* mutant: the empty result set is saved as any other
save_to_csv_NoEmptyCheck(data, filename, user, io) ==
  IF io.kind \in {"ok", "none"}
  THEN [ret  |-> [kind |-> "filename", value |-> FilenameOf(filename, user)],
        file |-> [exists |-> TRUE, header |-> fieldnames, rows |-> Rows(data)]]
  ELSE IF io.kind = "open_error"
  THEN [ret |-> [kind |-> "None"], file |-> NoFile]
  ELSE [ret  |-> [kind |-> "None"],
        file |-> [exists |-> TRUE,
                  header |-> IF io.lines >= 1 THEN fieldnames ELSE <<>>,
                  rows |-> SubSeq(Rows(data), 1, io.lines - 1)]]

\* lines 265-295
save_to_csv(data, filename, user, io) ==
  IF data = <<>>
  THEN [ret |-> [kind |-> "None"], file |-> NoFile]
  ELSE IF io.kind = "ok"
  THEN [ret  |-> [kind |-> "filename", value |-> FilenameOf(filename, user)],
        file |-> [exists |-> TRUE, header |-> fieldnames, rows |-> Rows(data)]]
  ELSE IF io.kind = "open_error"
  THEN [ret |-> [kind |-> "None"], file |-> NoFile]
  ELSE [ret  |-> [kind |-> "None"],
        file |-> [exists |-> TRUE,
                  header |-> IF io.lines >= 1 THEN fieldnames ELSE <<>>,
                  rows |-> SubSeq(Rows(data), 1, io.lines - 1)]]

SaveToCsv ==
  \E filename \in Filenames :
    \E io \in IoOutcomes(movies_data) :
      /\ pc = "idle"
      /\ call' = "save_to_csv"
      /\ LET r == save_to_csv(movies_data, filename, username, io)
         IN  /\ ret' = r.ret
             /\ csvfile' = r.file
      /\ saveIo' = io
      /\ pc' = "idle"
      /\ UNCHANGED <<world, objv, exc, allv, secv, itemv, sechist, itemhist, intrhist, allhist,
                     appended>>

Next ==
  \/ CallScrapeSection
  \/ GetNumPages
  \/ FetchListing
  \/ NextItem
  \/ FetchDetail
  \/ FilmSleep
  \/ PageEnd
  \/ SectionReturn
  \/ Propagate
  \/ CallScrapeAll
  \/ ForSection
  \/ ExceptHandler
  \/ AllReturn
  \/ SaveToCsv

Spec == Init /\ [][Next]_vars

(***************************************************************************)
(* Properties                                                              *)
(***************************************************************************)
Ids(data) == {data[i].movie_id : i \in 1..Len(data)}

Range(q) == {q[i] : i \in 1..Len(q)}

Max(a, b) == IF a >= b THEN a ELSE b

UpTo(n) == [i \in 1..Max(n, 0) |-> i]

IsPrefix(p, q) == Len(p) <= Len(q) /\ SubSeq(q, 1, Len(p)) = p

RequestPcs == {"get_num_pages", "get_page", "get_movie_details"}

\* C1: no two records of movies_data have the same movie_id, in every
\* reachable state of one scraper object.
C1_UniqueIds ==
  \A i, j \in 1..Len(movies_data) :
    movies_data[i].movie_id = movies_data[j].movie_id => i = j

\* both films are in the result set and a third item, a duplicate, was met
C1_Witness == Len(movies_data) = 2 /\ skipped = "duplicate"

\* C2: first seen wins.  A step of the item loop that meets an item whose
\* slug is already a movie_id of the result set leaves the result set as it
\* is and goes on to the next item without a detail request; no step ever
\* changes or removes a record that is in the result set.
C2_FirstSeenWins ==
  [][/\ (/\ pc = "items"
         /\ itemsLeft' = itemsLeft - 1
         /\ movie_slug' # None
         /\ movie_slug'[1] \in Ids(movies_data))
          => (movies_data' = movies_data /\ pc' = "items" /\ detailResp' = NoResp)
     /\ pc' = "get_movie_details" => movie_slug'[1] \notin Ids(movies_data')
     /\ Range(movies_data) \subseteq Range(movies_data')]_vars

\* in the second section of scrape_all_sections a film of the first section
\* is met again
C2_Witness ==
  /\ call = "scrape_all_sections"
  /\ secIdx = 2
  /\ skipped = "duplicate"
  /\ movie_slug = Some(SlugA)
  /\ Len(movies_data) >= 1
  /\ movies_data[1].movie_id = SlugA

\* C3: section isolation.  Unless a user interrupt broke the loop,
\* scrape_all_sections has begun the scrape of every section of its list, in
\* the order of the list, when it returns, whatever exceptions the sections
\* raised; and the result set holds every record ever appended, in order.
C3_SectionIsolation ==
  /\ call = "scrape_all_sections" => IsPrefix(started, sections)
  /\ (pc = "all_return" /\ ~broke) => started = sections
  /\ movies_data = appended

\* scrape_all_sections returns after a section raised an exception when the
\* result set held one record, and a later section appended another
C3_Witness ==
  /\ pc = "all_return"
  /\ ~broke
  /\ raisedLen = Some(1)
  /\ Len(movies_data) = 2
  /\ Len(sections) = 2

\* C4: once a user interrupt was delivered while scrape_all_sections scrapes
\* a section, the run is on its way out (the interrupt propagates, or the
\* loop has ended) and the result set is what it was at the interrupt.
C4_InterruptAborts ==
  (call = "scrape_all_sections" /\ interruptSeen)
    => /\ pc \in {"raise", "all_return"}
       /\ pc = "raise" => exc = "KeyboardInterrupt"
       /\ movies_data = atInterrupt

\* C5: get_num_pages returns an integer >= 1 for every first page, and 1
\* when the page cannot be fetched, has no pagination control or its last
\* page link is not an integer.
C5_AtLeastOnePage ==
  (numPages # None /\ firstResp # NoResp)
    => /\ numPages[1] >= 1
       /\ (\/ firstResp.status # "ok"
           \/ ~firstResp.doc.pagination
           \/ firstResp.doc.page_links = <<>>
           \/ ~IntParses(firstResp.doc.page_links[Len(firstResp.doc.page_links)]))
            => numPages[1] = 1

HalfPointScale ==
  {<<"0", ".", "5">>, <<"1", ".", "0">>, <<"1", ".", "5">>, <<"2", ".", "0">>,
   <<"2", ".", "5">>, <<"3", ".", "0">>, <<"3", ".", "5">>, <<"4", ".", "0">>,
   <<"4", ".", "5">>, <<"5", ".", "0">>}

\* C6: every record's rating is 'Not Rated' or a half-point value from 0.5
\* to 5.0.
C6_RatingOnScale ==
  \A i \in 1..Len(movies_data) :
    movies_data[i].rating \in {NotRated} \cup HalfPointScale

\* the column a feature of the detail page fills, and what stands for it
\* when the feature is absent
FieldOf(f) ==
  CASE f = "title"       -> "movie_name"
    [] f = "year"        -> "year"
    [] f = "genres"      -> "genres"
    [] f = "rating_meta" -> "vote_average"
    [] f = "histogram"   -> "vote_count"
    [] f = "fans"        -> "popularity"

SentinelOf(f) == IF f = "fans" THEN <<"0">> ELSE <<"N", "/", "A">>

\* C7: for a film not yet in the result set, get_movie_details returns
\* details exactly when the detail page was fetched, whatever the page
\* lacks; scrape_section then appends exactly one record, of that slug and
\* with the sentinel in every column whose feature the page lacks, and
\* appends nothing when no details were returned.
C7_DetailsDecideRecord ==
  [][(pc = "get_movie_details" /\ pc' = "film_sleep")
       => /\ (movie_details' # None) <=> (detailResp'.status = "ok")
          /\ movie_details' = None => movies_data' = movies_data
          /\ movie_details' # None =>
               /\ Len(movies_data') = Len(movies_data) + 1
               /\ SubSeq(movies_data', 1, Len(movies_data)) = movies_data
               /\ movies_data'[Len(movies_data')].movie_id = movie_slug[1]
               /\ movies_data'[Len(movies_data')].rating = user_rating[1]
               /\ \A f \in Features :
                    detailResp'.doc[f] = <<>>
                      => movies_data'[Len(movies_data')][FieldOf(f)] = SentinelOf(f)]_vars

\* the page fetched lacks all six features and its record is in the result set
C7_Witness ==
  /\ pc = "film_sleep"
  /\ detailResp.status = "ok"
  /\ \A f \in Features : detailResp.doc[f] = <<>>
  /\ Len(movies_data) = 1
  /\ movies_data[1].movie_name = <<"N", "/", "A">>
  /\ movies_data[1].popularity = <<"0">>

\* C8: with a maximum M the section requests pages 1..min(N, M), in order,
\* and pages 1..N with none, N being what get_num_pages returned.
C8_PageCap ==
  numPages # None
    => LET last == IF max_pages # None THEN Min(numPages[1], max_pages[1])
                   ELSE numPages[1]
       IN  /\ IsPrefix(requested, UpTo(last))
           /\ pc = "section_return" => requested = UpTo(last)

\* C9: save_to_csv leaves the result set as it is; with an empty result set
\* it writes nothing and returns None; when nothing fails it writes the nine
\* columns and one row per record in order and returns the file name; when
\* the file system fails it returns None and raises nothing.
C9_SaveToCsv ==
  [][(pc = "idle" /\ pc' = "idle" /\ call' = "save_to_csv")
       => /\ movies_data' = movies_data
          /\ ret'.kind \in {"None", "filename"}
          /\ movies_data = <<>> => (ret'.kind = "None" /\ ~csvfile'.exists)
          /\ (movies_data # <<>> /\ saveIo'.kind = "ok")
               => /\ ret'.kind = "filename"
                  /\ csvfile'.exists
                  /\ csvfile'.header =
                       <<"movie_id", "username", "movie_name", "year", "genres", "rating",
                         "popularity", "vote_average", "vote_count">>
                  /\ Len(csvfile'.rows) = Len(movies_data)
                  /\ \A i \in 1..Len(movies_data) :
                       csvfile'.rows[i] =
                         <<movies_data[i].movie_id, movies_data[i].username,
                           movies_data[i].movie_name, movies_data[i].year,
                           movies_data[i].genres, movies_data[i].rating,
                           movies_data[i].popularity, movies_data[i].vote_average,
                           movies_data[i].vote_count>>
          /\ saveIo'.kind \in {"open_error", "write_error"} => ret'.kind = "None"]_vars

\* two records were saved
C9_Witness ==
  /\ call = "save_to_csv"
  /\ pc = "idle"
  /\ ret.kind = "filename"
  /\ Len(csvfile.rows) = 2

\* C10: a listing page after the first is requested only after
\* time.sleep(2), which runs only between two pages; and no request follows
\* a detail request before time.sleep(1.5) ran.
C10_Delays ==
  /\ (pc = "get_page" /\ page > 1) => pageSlept
  /\ pageSlept => (pc = "get_page" /\ page > 1)
  /\ pc \in RequestPcs => ~filmSleepDue

=============================================================================
